---- MODULE Spec2Model ----
(***************************************************************************)
(* BugBoy Python: a Flask application whose routes each trigger one        *)
(* runtime error.  The model covers the routing table and bug catalog      *)
(* (app.py), the service functions and the seeded in-memory data           *)
(* (services.py, models.py), the helpers of utils.py, the global error     *)
(* handler, the worker threads of run_with_timeout and NotificationQueue,  *)
(* and the process-wide state they share.                                  *)
(*                                                                         *)
(* Time is counted in tenths of a second.  Computation takes no time: a    *)
(* thread that can take a step takes it before time advances; time then    *)
(* advances to the next expiry of a sleep or of a join deadline.  Requests *)
(* arrive at any instant the model stands at, and everything enabled at    *)
(* one instant interleaves in every order.                                 *)
(*                                                                         *)
(* Python's None is the empty tuple; an optional value v is <<v>>.         *)
(***************************************************************************)
EXTENDS Integers, Sequences, FiniteSets, TLC

VARIABLES
    users,            \* services._users
    projects,         \* services._projects
    bugs,             \* app.BUGS
    lastThreadError,  \* app._last_thread_error
    recursionLimit,   \* sys.getrecursionlimit()
    files,            \* the config and export files on disk
    net,              \* how connecting to db.internal.local:5432 fails, once tried
    pc,               \* per request: position of the request thread
    req,              \* per request: path, method and parameters received
    frame,            \* per request: locals of the view and of run_with_timeout
    worker,           \* per request: the worker thread it started
    raised,           \* per request: the exception that left the view
    captured,         \* per request: what bugstack.capture_exception got
    resp,             \* per request: the response sent
    trace             \* per request: observable events, in order

vars == <<users, projects, bugs, lastThreadError, recursionLimit, files,
          net, pc, req, frame, worker, raised, captured, resp, trace>>

-----------------------------------------------------------------------------
(* Bounds of the model *)

\* Requests handled in one behaviour; they may overlap in any way.
MaxReq == 2
\* Object references the process can hold before Python raises MemoryError.
MemCapacity == 1000
\* sys.getrecursionlimit() when the process starts.
InitialRecursionLimit == 60
\* RwtSpec: direct calls of run_with_timeout, the longest function and the
\* longest deadline given to it, in tenths of a second.
MaxCalls == 1
MaxDur == 3
MaxTimeout == 3

Req == 1..MaxReq

-----------------------------------------------------------------------------
(* Program constants *)

DefaultTypeErrorUserId == 2
DefaultKeyErrorUserId == 1
DefaultPoints == 42
DefaultCount == 500000
LoweredRecursionLimit == 50
DbPort == 5432
DbTimeout == 20
TimeoutSec == 20
SlowQuerySleep == 100
ThreadJoinTimeout == 50
ProcessingDelay == 1
NotifyUserId == 1

-----------------------------------------------------------------------------
(* Python values *)

None == <<>>
Some(v) == <<v>>
EmptyDict == [k \in {} |-> None]

Ok(v) == [ok |-> TRUE, val |-> v]
Err(e) == [ok |-> FALSE, exc |-> e]

\* An exception object.  is_exception: it derives from Exception (and not
\* only from BaseException).  req/thread say where it was raised.
Exc(kind, message) ==
    [kind |-> kind, message |-> message, is_exception |-> TRUE,
     req |-> 0, thread |-> "request"]
BaseExc(kind, message) ==
    [kind |-> kind, message |-> message, is_exception |-> FALSE,
     req |-> 0, thread |-> "request"]
RaisedIn(e, r, th) == [e EXCEPT !.req = r, !.thread = th]

NoneAttr(attr) ==
    Exc("AttributeError", <<"'NoneType' object has no attribute", attr>>)

-----------------------------------------------------------------------------
(* models.py *)

User(user_id, name, email, role) ==
    [user_id |-> user_id, name |-> name, email |-> email, role |-> role,
     preferences |-> None, last_name |-> None]

Task(task_id, title, description, assignee, tags) ==
    [task_id |-> task_id, title |-> title, description |-> description,
     assignee |-> assignee, tags |-> tags, priority |-> 1,
     comments |-> <<>>, history |-> <<>>]

Project(project_id, name, owner) ==
    [project_id |-> project_id, name |-> name, owner |-> owner,
     tasks |-> <<>>, members |-> <<>>, settings |-> EmptyDict]

\* User.get_display_name: self.name + " " + self.last_name
get_display_name(user) ==
    IF user.last_name = None
    THEN Err(Exc("TypeError", <<"can only concatenate str (not NoneType) to str">>))
    ELSE Ok(<<user.name, " ", user.last_name[1]>>)

\* User.get_notification_settings: self.preferences["notifications"]
get_notification_settings(user) ==
    IF user.preferences = None
    THEN Err(Exc("TypeError", <<"'NoneType' object is not subscriptable">>))
    ELSE IF "notifications" \notin DOMAIN user.preferences[1]
    THEN Err(Exc("KeyError", <<"'notifications'">>))
    ELSE Ok(user.preferences[1]["notifications"])

\* Task.get_latest_comment: self.comments[-1]
get_latest_comment_of(task) ==
    IF Len(task.comments) = 0
    THEN Err(Exc("IndexError", <<"list index out of range">>))
    ELSE Ok(task.comments[Len(task.comments)])

\* Task.to_dict
to_dict(us, task) ==
    [id |-> task.task_id, title |-> task.title,
     description |-> task.description,
     assignee |-> IF task.assignee = None THEN None
                  ELSE Some(us[task.assignee[1]].name),
     tags |-> task.tags, priority |-> task.priority]

\* Project.get_task_by_id: the first task with that id, or None
get_task_by_id(project, task_id) ==
    LET hits == {i \in DOMAIN project.tasks : project.tasks[i].task_id = task_id}
    IN IF hits = {} THEN None
       ELSE Some(project.tasks[CHOOSE i \in hits : \A j \in hits : i <= j])

-----------------------------------------------------------------------------
(* services.py: the seeded data *)

SeedUsers ==
    (1 :> User(1, "Alice Chen", "alice@example.com", "admin")) @@
    (2 :> User(2, "Bob Martinez", "bob@example.com", "member")) @@
    (3 :> User(3, "Charlie Kim", "charlie@example.com", "member"))

\* _seed_data: the users after seeding
seed_users ==
    [SeedUsers EXCEPT ![1].preferences =
        Some([theme |-> "dark", language |-> "en"])]

\* _seed_data: the projects after seeding, given the assignee of TASK-103 (a
\* task's assignee is the user's id)
seeded_projects(assignee3) ==
    LET task1 == Task("TASK-101", "Set up CI pipeline", "Configure GitHub Actions",
                      Some(2), <<"devops", "ci">>)
        task2 == Task("TASK-102", "Design landing page", "Create mockups in Figma",
                      Some(3), <<"design">>)
        task3 == Task("TASK-103", "Write API docs", "Document all REST endpoints",
                      assignee3, <<"docs">>)
        project == [Project("proj-1", "BugBoy Demo", 1) EXCEPT
                       !.members = <<1, 2, 3>>,
                       !.tasks = <<task1, task2, task3>>]
    IN ("proj-1" :> project)

\* Faulty variant of the seeding: TASK-103 is given an assignee
seed_projects_all_assigned == seeded_projects(Some(1))

\* _seed_data: task3 is created without an assignee
seed_projects == seeded_projects(None)

-----------------------------------------------------------------------------
(* Text.  A str is the tuple of its code points, a bytes object the tuple  *)
(* of its bytes, so that splitting, decoding and parsing are computed.     *)

IsSpace(c) == c \in {9, 10, 11, 12, 13, 32}
IsDigit(c) == c >= 48 /\ c <= 57

\* The least element of a non-empty set of integers
Least(S) == CHOOSE x \in S : \A y \in S : x <= y

\* str.strip(): from the first to the last character that is no whitespace
Strip(s) ==
    LET inked == {i \in DOMAIN s : ~IsSpace(s[i])}
    IN IF inked = {} THEN <<>>
       ELSE SubSeq(s, Least(inked), CHOOSE i \in inked : \A j \in inked : j <= i)

\* str.split(sep) for a one-character separator: the pieces between
\* consecutive separators, the ends of the text included
Split(s, sep) ==
    LET cuts == {i \in DOMAIN s : s[i] = sep}
        cut(k) == IF k = 0 THEN 0
                  ELSE IF k > Cardinality(cuts) THEN Len(s) + 1
                  ELSE CHOOSE i \in cuts : Cardinality({j \in cuts : j < i}) = k - 1
    IN [k \in 1..(Cardinality(cuts) + 1) |-> SubSeq(s, cut(k - 1) + 1, cut(k) - 1)]

RECURSIVE DigitsValue(_, _)
DigitsValue(s, acc) ==
    IF s = <<>> THEN acc ELSE DigitsValue(Tail(s), acc * 10 + (Head(s) - 48))

\* int(s): surrounding whitespace and one sign are accepted, then digits only
ParseInt(s) ==
    LET t == Strip(s)
        signed == t # <<>> /\ Head(t) \in {43, 45}
        digits == IF signed THEN Tail(t) ELSE t
    IN IF digits = <<>> \/ \E i \in DOMAIN digits : ~IsDigit(digits[i])
       THEN Err(Exc("ValueError", <<"invalid literal for int() with base 10">>))
       ELSE Ok(IF signed /\ Head(t) = 45 THEN 0 - DigitsValue(digits, 0)
               ELSE DigitsValue(digits, 0))

\* dict(zip(keys, values)): pairs up to the shorter length, a later key wins
RECURSIVE ZipDict(_, _, _)
ZipDict(keys, values, n) ==
    IF n = 0 THEN EmptyDict
    ELSE (keys[n] :> values[n]) @@ ZipDict(keys, values, n - 1)

Min(a, b) == IF a <= b THEN a ELSE b

-----------------------------------------------------------------------------
(* json.loads on a str.  Values are tagged by their JSON type.  Strings    *)
(* have no escapes and numbers are integers in every text of this program. *)

JStr(v) == [str |-> v]
JNum(n) == [num |-> n]
JBool(b) == [bool |-> b]
JNull == [null |-> TRUE]
JObj(f) == [obj |-> f]
JArr(a) == [arr |-> a]

ParseFail == [ok |-> FALSE, val |-> JNull, next |-> 0]
Parsed(v, next) == [ok |-> TRUE, val |-> v, next |-> next]

At(s, i) == IF i >= 1 /\ i <= Len(s) THEN s[i] ELSE 0

\* The first index from i on that holds no whitespace (Len(s) + 1: none)
SkipWs(s, i) ==
    IF i > Len(s) THEN i
    ELSE Least({j \in i..(Len(s) + 1) : ~IsSpace(At(s, j))})

\* The first double quote from i on (0: none)
QuoteEnd(s, i) ==
    LET quotes == {j \in i..Len(s) : s[j] = 34}
    IN IF quotes = {} THEN 0 ELSE Least(quotes)

\* The first index from i on that holds no digit
DigitsEnd(s, i) == Least({j \in i..(Len(s) + 1) : ~IsDigit(At(s, j))})

HasWord(s, i, w) == i + Len(w) - 1 <= Len(s) /\ SubSeq(s, i, i + Len(w) - 1) = w

ParseString(s, i) ==
    LET j == QuoteEnd(s, i + 1)
    IN IF At(s, i) # 34 \/ j = 0 THEN ParseFail
       ELSE Parsed(SubSeq(s, i + 1, j - 1), j + 1)

RECURSIVE ParseValue(_, _)
RECURSIVE ParseMembers(_, _, _)
RECURSIVE ParseElements(_, _, _)

\* i is at a key: "key" : value, then , or }
ParseMembers(s, i, acc) ==
    LET k == ParseString(s, SkipWs(s, i))
        colon == SkipWs(s, k.next)
        v == ParseValue(s, colon + 1)
        after == SkipWs(s, v.next)
    IN IF ~k.ok \/ At(s, colon) # 58 THEN ParseFail
       ELSE IF ~v.ok THEN ParseFail
       ELSE IF At(s, after) = 44
            THEN ParseMembers(s, after + 1, (k.val :> v.val) @@ acc)
       ELSE IF At(s, after) = 125
            THEN Parsed(JObj((k.val :> v.val) @@ acc), after + 1)
       ELSE ParseFail

\* i is at an element: value, then , or ]
ParseElements(s, i, acc) ==
    LET v == ParseValue(s, i)
        after == SkipWs(s, v.next)
    IN IF ~v.ok THEN ParseFail
       ELSE IF At(s, after) = 44 THEN ParseElements(s, after + 1, Append(acc, v.val))
       ELSE IF At(s, after) = 93 THEN Parsed(JArr(Append(acc, v.val)), after + 1)
       ELSE ParseFail

ParseValue(s, at) ==
    LET i == SkipWs(s, at)
        c == At(s, i)
        d == IF c = 45 THEN i + 1 ELSE i
    IN IF c = 34 THEN
            LET str == ParseString(s, i)
            IN IF str.ok THEN Parsed(JStr(str.val), str.next) ELSE ParseFail
       ELSE IF c = 123 THEN
            IF At(s, SkipWs(s, i + 1)) = 125
            THEN Parsed(JObj(EmptyDict), SkipWs(s, i + 1) + 1)
            ELSE ParseMembers(s, i + 1, EmptyDict)
       ELSE IF c = 91 THEN
            IF At(s, SkipWs(s, i + 1)) = 93
            THEN Parsed(JArr(<<>>), SkipWs(s, i + 1) + 1)
            ELSE ParseElements(s, i + 1, <<>>)
       ELSE IF IsDigit(At(s, d)) THEN
            LET e == DigitsEnd(s, d)
                n == DigitsValue(SubSeq(s, d, e - 1), 0)
            IN Parsed(JNum(IF c = 45 THEN 0 - n ELSE n), e)
       ELSE IF HasWord(s, i, <<116, 114, 117, 101>>) THEN Parsed(JBool(TRUE), i + 4)
       ELSE IF HasWord(s, i, <<102, 97, 108, 115, 101>>) THEN Parsed(JBool(FALSE), i + 5)
       ELSE IF HasWord(s, i, <<110, 117, 108, 108>>) THEN Parsed(JNull, i + 4)
       ELSE ParseFail

\* json.loads(text): one value, then only whitespace
json_loads(s) ==
    LET v == ParseValue(s, 1)
    IN IF v.ok /\ SkipWs(s, v.next) = Len(s) + 1 THEN Ok(v.val)
       ELSE Err(Exc("JSONDecodeError", <<"Expecting property name or value">>))

-----------------------------------------------------------------------------
(* bytes.decode("utf-8") *)

IsCont(b, i) == At(b, i) >= 128 /\ At(b, i) <= 191

\* How many bytes the sequence starting at b[i] takes, 0 when it is malformed
Utf8Width(b, i) ==
    LET c == b[i]
        c2 == At(b, i + 1)
    IN IF c < 128 THEN 1
       ELSE IF c >= 194 /\ c <= 223 THEN (IF IsCont(b, i + 1) THEN 2 ELSE 0)
       ELSE IF c >= 224 /\ c <= 239 THEN
            (IF /\ IsCont(b, i + 1) /\ IsCont(b, i + 2)
                /\ (c = 224 => c2 >= 160)
                /\ (c = 237 => c2 <= 159)
             THEN 3 ELSE 0)
       ELSE IF c >= 240 /\ c <= 244 THEN
            (IF /\ IsCont(b, i + 1) /\ IsCont(b, i + 2) /\ IsCont(b, i + 3)
                /\ (c = 240 => c2 >= 144)
                /\ (c = 244 => c2 <= 143)
             THEN 4 ELSE 0)
       ELSE 0

CodePoint(b, i, w) ==
    IF w = 1 THEN b[i]
    ELSE IF w = 2 THEN (b[i] - 192) * 64 + (b[i + 1] - 128)
    ELSE IF w = 3 THEN (b[i] - 224) * 4096 + (b[i + 1] - 128) * 64 + (b[i + 2] - 128)
    ELSE (b[i] - 240) * 262144 + (b[i + 1] - 128) * 4096
         + (b[i + 2] - 128) * 64 + (b[i + 3] - 128)

RECURSIVE DecodeFrom(_, _, _)
DecodeFrom(b, i, acc) ==
    IF i > Len(b) THEN Ok(acc)
    ELSE LET w == Utf8Width(b, i)
         IN IF w = 0
            THEN Err(Exc("UnicodeDecodeError", <<"'utf-8' codec can't decode byte">>))
            ELSE DecodeFrom(b, i + w, Append(acc, CodePoint(b, i, w)))

decode_utf8(b) == DecodeFrom(b, 1, <<>>)

-----------------------------------------------------------------------------
(* The texts of the program *)

\* '{"ok": true, "channel": "#general"}'
RawSlack ==
    <<123, 34, 111, 107, 34, 58, 32, 116, 114, 117, 101, 44, 32, 34, 99,
    104, 97, 110, 110, 101, 108, 34, 58, 32, 34, 35, 103, 101, 110, 101,
    114, 97, 108, 34, 125>>

\* '{"issues": [{"key": "BUG-1", "summary": "Fix login"}]}'
RawJira ==
    <<123, 34, 105, 115, 115, 117, 101, 115, 34, 58, 32, 91, 123, 34, 107,
    101, 121, 34, 58, 32, 34, 66, 85, 71, 45, 49, 34, 44, 32, 34, 115,
    117, 109, 109, 97, 114, 121, 34, 58, 32, 34, 70, 105, 120, 32, 108,
    111, 103, 105, 110, 34, 125, 93, 125>>

\* '{"event": "push", "ref": "main", timestamp: 1700000000}'
RawWebhook ==
    <<123, 34, 101, 118, 101, 110, 116, 34, 58, 32, 34, 112, 117, 115,
    104, 34, 44, 32, 34, 114, 101, 102, 34, 58, 32, 34, 109, 97, 105, 110,
    34, 44, 32, 116, 105, 109, 101, 115, 116, 97, 109, 112, 58, 32, 49,
    55, 48, 48, 48, 48, 48, 48, 48, 48, 125>>

\* '{"status": "unknown"}'
RawUnknown ==
    <<123, 34, 115, 116, 97, 116, 117, 115, 34, 58, 32, 34, 117, 110, 107,
    110, 111, 119, 110, 34, 125>>

\* b'{"user": "M\xfcller", "action": "login"}'
BadPayload ==
    <<123, 34, 117, 115, 101, 114, 34, 58, 32, 34, 77, 252, 108, 108, 101,
    114, 34, 44, 32, 34, 97, 99, 116, 105, 111, 110, 34, 58, 32, 34, 108,
    111, 103, 105, 110, 34, 125>>

\* "title,description,priority\nFix login,Users can't log in,high\nUpdate docs,Add API examples,2"
DefaultCsv ==
    <<116, 105, 116, 108, 101, 44, 100, 101, 115, 99, 114, 105, 112, 116,
    105, 111, 110, 44, 112, 114, 105, 111, 114, 105, 116, 121, 10, 70,
    105, 120, 32, 108, 111, 103, 105, 110, 44, 85, 115, 101, 114, 115, 32,
    99, 97, 110, 39, 116, 32, 108, 111, 103, 32, 105, 110, 44, 104, 105,
    103, 104, 10, 85, 112, 100, 97, 116, 101, 32, 100, 111, 99, 115, 44,
    65, 100, 100, 32, 65, 80, 73, 32, 101, 120, 97, 109, 112, 108, 101,
    115, 44, 50>>

\* a request body: "title,priority\nFix login,3\nUpdate docs,2"
ValidCsv ==
    <<116, 105, 116, 108, 101, 44, 112, 114, 105, 111, 114, 105, 116, 121,
    10, 70, 105, 120, 32, 108, 111, 103, 105, 110, 44, 51, 10, 85, 112,
    100, 97, 116, 101, 32, 100, 111, 99, 115, 44, 50>>

\* "priority"
KeyPriority ==
    <<112, 114, 105, 111, 114, 105, 116, 121>>

-----------------------------------------------------------------------------
(* services.py: users and tasks *)

get_user(user_id) ==
    IF user_id \in DOMAIN users THEN Some(users[user_id]) ELSE None

get_user_display_name(user_id) ==
    LET user == get_user(user_id)
    IN IF user = None THEN Err(NoneAttr("get_display_name"))
       ELSE get_display_name(user[1])

get_user_notifications(user_id) ==
    LET user == get_user(user_id)
    IN IF user = None THEN Err(NoneAttr("get_notification_settings"))
       ELSE get_notification_settings(user[1])

get_task_detail(project_id, task_id) ==
    IF project_id \notin DOMAIN projects THEN None
    ELSE get_task_by_id(projects[project_id], task_id)

get_latest_comment(project_id, task_id) ==
    LET task == get_task_detail(project_id, task_id)
    IN IF task = None THEN Err(NoneAttr("get_latest_comment"))
       ELSE get_latest_comment_of(task[1])

\* task.assignee.email; the assignee is the User object users[id]
get_task_assignee_email(project_id, task_id) ==
    LET task == get_task_detail(project_id, task_id)
    IN IF task = None THEN Err(NoneAttr("assignee"))
       ELSE IF task[1].assignee = None THEN Err(NoneAttr("email"))
       ELSE Ok(users[task[1].assignee[1]].email)

\* sprint_points / days_in_sprint is kept as the pair <<points, days>>
generate_velocity_report(project_id, sprint_points) ==
    IF project_id \notin DOMAIN projects THEN Ok(None)
    ELSE LET settings == projects[project_id].settings
             days_in_sprint == IF "sprint_length_days" \in DOMAIN settings
                               THEN settings["sprint_length_days"] ELSE 0
         IN IF days_in_sprint = 0
            THEN Err(Exc("ZeroDivisionError", <<"division by zero">>))
            ELSE Ok([velocity_per_day |-> <<sprint_points, days_in_sprint>>,
                     total_points |-> sprint_points])

-----------------------------------------------------------------------------
(* services.py: files.  files maps a path to None (no such file) or to     *)
(* <<[readonly, content]>>.                                                *)

ConfigPath(project_id) == <<"config", "projects", project_id>>
ExportPath(project_id) == <<".exports", project_id>>
Placeholder == [placeholder |-> TRUE]

load_project_config(fs, project_id) ==
    LET f == fs[ConfigPath(project_id)]
    IN IF f = None
       THEN Err(Exc("FileNotFoundError", <<"No such file or directory">>))
       ELSE json_loads(f[1].content)

\* Faulty variant of write_export_file: os.chmod(export_path, 0o444) is left out
write_export_file_without_chmod(fs, project_id, data) ==
    LET export_path == ExportPath(project_id)
        created == IF fs[export_path] = None
                   THEN [fs EXCEPT ![export_path] =
                            Some([readonly |-> FALSE, content |-> Placeholder])]
                   ELSE fs
    IN IF created[export_path][1].readonly
       THEN [res |-> Err(Exc("PermissionError", <<"Permission denied">>)),
             files |-> created]
       ELSE [res |-> Ok(export_path),
             files |-> [created EXCEPT ![export_path][1].content = data]]

\* The result of the call and the files it leaves.  open(path, "w") on a
\* read-only file is refused.
write_export_file(fs, project_id, data) ==
    LET export_path == ExportPath(project_id)
        created == IF fs[export_path] = None
                   THEN [fs EXCEPT ![export_path] =
                            Some([readonly |-> FALSE, content |-> Placeholder])]
                   ELSE fs
        locked == [created EXCEPT ![export_path][1].readonly = TRUE]
    IN IF locked[export_path][1].readonly
       THEN [res |-> Err(Exc("PermissionError", <<"Permission denied">>)),
             files |-> locked]
       ELSE [res |-> Ok(export_path),
             files |-> [locked EXCEPT ![export_path][1].content = data]]

-----------------------------------------------------------------------------
(* services.py: integrations *)

raw_responses(service_name) ==
    IF service_name = "slack" THEN RawSlack
    ELSE IF service_name = "jira" THEN RawJira
    ELSE IF service_name = "webhook" THEN RawWebhook
    ELSE RawUnknown

\* APIResponse(raw).json() for each text an APIResponse is made of
api_response_json ==
    [raw \in {RawSlack, RawJira, RawWebhook, RawUnknown} |-> json_loads(raw)]

fetch_integration_data(service_name) == api_response_json[raw_responses(service_name)]

parse_incoming_webhook(payload_bytes) ==
    LET text == decode_utf8(payload_bytes)
    IN IF ~text.ok THEN text ELSE json_loads(text.val)

\* socket.connect to the host fails the way the network makes it fail; the
\* socket is closed in the finally block on every path.
NetModes == {"unresolvable", "refused", "timeout"}

connect_to_database(network, host, port, timeout) ==
    LET failure ==
            IF network = "unresolvable"
            THEN Exc("gaierror", <<"Name or service not known">>)
            ELSE IF network = "refused"
            THEN Exc("ConnectionRefusedError", <<"Connection refused">>)
            ELSE Exc("TimeoutError", <<"timed out">>)
    IN [res |-> IF network \in NetModes THEN Err(failure) ELSE Ok(TRUE),
        closed |-> TRUE]

-----------------------------------------------------------------------------
(* services.py: CSV import *)

RECURSIVE ImportRows(_, _, _, _)
ImportRows(headers, lines, i, tasks) ==
    IF i > Len(lines) THEN Ok(tasks)
    ELSE LET values == Split(lines[i], 44)
             row == ZipDict(headers, values, Min(Len(headers), Len(values)))
         IN IF KeyPriority \notin DOMAIN row
            THEN Err(Exc("KeyError", <<"'priority'">>))
            ELSE LET priority == ParseInt(row[KeyPriority])
                 IN IF ~priority.ok THEN priority
                    ELSE ImportRows(headers, lines, i + 1,
                            Append(tasks, [row EXCEPT ![KeyPriority] = priority.val]))

import_tasks_from_csv(csv_text) ==
    LET lines == Split(Strip(csv_text), 10)
    IN ImportRows(Split(lines[1], 44), lines, 2, <<>>)

\* The texts that reach import_tasks_from_csv, and what it makes of each
CsvTexts == {DefaultCsv, ValidCsv}
imported_tasks == [csv_text \in CsvTexts |-> import_tasks_from_csv(csv_text)]

-----------------------------------------------------------------------------
(* models.py CategoryTree and services.py build_*: a tree is a heap of     *)
(* nodes, a node's children are the heap indices of the child objects.     *)

CategoryTree(name, parent) == [name |-> name, parent |-> parent, children |-> <<>>]

\* heap after node.add_child(name); the child is the last node of the heap
add_child(heap, node, name) ==
    LET child == Len(heap) + 1
    IN Append([heap EXCEPT ![node].children = Append(@, child)],
              CategoryTree(name, Some(node)))

\* Faulty variant of flatten_step: the loop over the children stops one
\* child early
flatten_step_skips_last_child(heap, stack, result, limit) ==
    LET top == stack[Len(stack)]
        children == heap[top.node].children
    IN IF top.at >= Len(children)
       THEN [stack |-> SubSeq(stack, 1, Len(stack) - 1), result |-> result,
             raised |-> FALSE]
       ELSE IF Len(stack) + 1 > limit
       THEN [stack |-> stack, result |-> result, raised |-> TRUE]
       ELSE [stack |-> Append([stack EXCEPT ![Len(stack)].at = @ + 1],
                              [node |-> children[top.at], at |-> 1]),
             result |-> Append(result, heap[children[top.at]].name),
             raised |-> FALSE]

\* CategoryTree.flatten as the interpreter runs it.  stack holds the
\* frames of the calls in progress, each the node and the index of the child
\* its loop is at; result collects the names in the order the calls put them
\* into their lists, which is the order of the list the outermost call
\* returns.  One step of the frame on top: its loop is over and it returns,
\* or it calls flatten on its next child; a call that would make the stack
\* deeper than the recursion limit raises RecursionError instead.
flatten_step(heap, stack, result, limit) ==
    LET top == stack[Len(stack)]
        children == heap[top.node].children
    IN IF top.at > Len(children)
       THEN [stack |-> SubSeq(stack, 1, Len(stack) - 1), result |-> result,
             raised |-> FALSE]
       ELSE IF Len(stack) + 1 > limit
       THEN [stack |-> stack, result |-> result, raised |-> TRUE]
       ELSE [stack |-> Append([stack EXCEPT ![Len(stack)].at = @ + 1],
                              [node |-> children[top.at], at |-> 1]),
             result |-> Append(result, heap[children[top.at]].name),
             raised |-> FALSE]

RecursionError == Exc("RecursionError", <<"maximum recursion depth exceeded">>)

\* The steps up to the return of the outermost call, or to the
\* RecursionError, which no frame catches
RECURSIVE run_flatten(_, _, _, _)
run_flatten(heap, stack, result, limit) ==
    IF stack = <<>> THEN Ok(result)
    ELSE LET next == flatten_step(heap, stack, result, limit)
         IN IF next.raised THEN Err(RecursionError)
            ELSE run_flatten(heap, next.stack, next.result, limit)

\* The frame and the list of node.flatten() when it is entered
flatten_entry(heap, node) ==
    [stack |-> <<[node |-> node, at |-> 1]>>, result |-> <<heap[node].name>>]

\* node.flatten() called under the given recursion limit
flatten(heap, node, limit) ==
    IF limit < 1 THEN Err(RecursionError)
    ELSE run_flatten(heap, flatten_entry(heap, node).stack,
                     flatten_entry(heap, node).result, limit)

\* build_category_tree(): the heap of the sample hierarchy and its root
build_category_tree ==
    LET root == <<CategoryTree("All Tasks", None)>>
        h1 == add_child(root, 1, "Engineering")
        eng == Len(h1)
        h2 == add_child(h1, eng, "Backend")
        h3 == add_child(h2, eng, "Frontend")
        h4 == add_child(h3, 1, "Design")
        design == Len(h4)
        h5 == add_child(h4, design, "UI")
        h6 == add_child(h5, design, "UX")
    IN [heap |-> h6, root |-> 1]

\* build_recursive_categories() before its return: Root, its child Child,
\* and Root appended to Child's children
recursive_tree ==
    LET root == <<CategoryTree("Root", None)>>
        h1 == add_child(root, 1, "Child")
        child == Len(h1)
        h2 == [h1 EXCEPT ![child].children = Append(@, 1)]
    IN [heap |-> h2, root |-> 1]

\* build_recursive_categories(): return root.flatten()
build_recursive_categories(limit) ==
    flatten(recursive_tree.heap, recursive_tree.root, limit)

-----------------------------------------------------------------------------
(* utils.py *)

\* [{"id": i, "data": "x" * 1024} for i in range(n)]: the ids of the items
generate_large_payload(n) == IF n <= 0 THEN <<>> ELSE [i \in 1..n |-> i - 1]

\* process_bulk_import keeps, for the k-th item, a list of the 2k-1 values
\* the index then holds: n*n references for n items, which the process must
\* be able to hold.  n*n > MemCapacity is decided without computing n*n.
process_bulk_import_count(n) ==
    IF n > 0 /\ n > MemCapacity \div n
    THEN Err(Exc("MemoryError", <<>>))
    ELSE Ok([indexed |-> 2 * n])

-----------------------------------------------------------------------------
(* services.py: notifications *)

\* A str.format template: literal parts and {field} parts
Lit(s) == [lit |-> s]
Field(f) == [field |-> f]
IsField(p) == "field" \in DOMAIN p

notification_templates ==
    ("task_assigned" :> <<Lit("You have been assigned to "), Field("task"), Lit(".")>>) @@
    ("comment_added" :> <<Lit("New comment on "), Field("task"), Lit(": "),
                          Field("comment")>>)

_load_notification_template(event_type) ==
    IF event_type \in DOMAIN notification_templates
    THEN Ok(notification_templates[event_type])
    ELSE Err(Exc("KeyError", <<event_type>>))

\* template.format(**notification): the first field the dict lacks is a KeyError
_send_notification(user, template, notification) ==
    LET missing == {i \in DOMAIN template :
                        IsField(template[i]) /\ template[i].field \notin DOMAIN notification}
    IN IF missing # {}
       THEN Err(Exc("KeyError",
                    <<template[CHOOSE i \in missing : \A j \in missing : i <= j].field>>))
       ELSE Ok([i \in DOMAIN template |->
                   IF IsField(template[i]) THEN <<"value of", template[i].field>>
                   ELSE <<template[i].lit>>])

\* _handler(notification) of process_notifications_async
_handler(notification) ==
    LET recipient == get_user(notification.user_id)
        template == _load_notification_template(notification.type)
    IN IF ~template.ok THEN template
       ELSE _send_notification(recipient, template.val, notification)

-----------------------------------------------------------------------------
(* app.py: the catalog and the routes *)

\* BUGS: a route is the tuple of its path segments, /trigger/type-error is
\* <<"trigger", "type-error">>
BUGS == <<
    [id |-> "type-error", name |-> "TypeError",
     route |-> <<"trigger", "type-error">>, method |-> "GET",
     description |-> "Format a user's full display name -- fails because last_name is None (can't concatenate str and NoneType).",
     category |-> "TypeError"],
    [id |-> "key-error", name |-> "KeyError",
     route |-> <<"trigger", "key-error">>, method |-> "GET",
     description |-> "Load notification settings for a user whose preferences dict is missing the 'notifications' key.",
     category |-> "KeyError / AttributeError"],
    [id |-> "attribute-error", name |-> "AttributeError",
     route |-> <<"trigger", "attribute-error">>, method |-> "GET",
     description |-> "Look up the assignee's email for an unassigned task -- accessing .email on None raises AttributeError.",
     category |-> "AttributeError"],
    [id |-> "zero-division", name |-> "ZeroDivisionError",
     route |-> <<"trigger", "zero-division">>, method |-> "GET",
     description |-> "Generate a velocity report where sprint_length_days defaults to 0, causing division by zero.",
     category |-> "ZeroDivisionError"],
    [id |-> "index-error", name |-> "IndexError",
     route |-> <<"trigger", "index-error">>, method |-> "GET",
     description |-> "Retrieve the latest comment on a task that has no comments -- list index out of range.",
     category |-> "IndexError"],
    [id |-> "file-not-found", name |-> "FileNotFoundError",
     route |-> <<"trigger", "file-not-found">>, method |-> "GET",
     description |-> "Load a project config file from disk that doesn't exist.",
     category |-> "FileNotFoundError"],
    [id |-> "json-decode-error", name |-> "JSONDecodeError",
     route |-> <<"trigger", "json-decode-error">>, method |-> "GET",
     description |-> "Parse a webhook response from a third-party service that returns malformed JSON.",
     category |-> "JSONDecodeError"],
    [id |-> "unicode-decode-error", name |-> "UnicodeDecodeError",
     route |-> <<"trigger", "unicode-decode-error">>, method |-> "POST",
     description |-> "Process an incoming webhook payload containing invalid UTF-8 byte sequences.",
     category |-> "UnicodeDecodeError"],
    [id |-> "recursion-error", name |-> "RecursionError",
     route |-> <<"trigger", "recursion-error">>, method |-> "GET",
     description |-> "Flatten a category tree that has an accidental circular parent->child reference.",
     category |-> "RecursionError"],
    [id |-> "connection-error", name |-> "ConnectionError",
     route |-> <<"trigger", "connection-error">>, method |-> "GET",
     description |-> "Attempt to connect to an internal database host that is unreachable.",
     category |-> "ConnectionError"],
    [id |-> "value-error", name |-> "ValueError",
     route |-> <<"trigger", "value-error">>, method |-> "POST",
     description |-> "Import tasks from CSV where the priority column contains a non-numeric string.",
     category |-> "ValueError"],
    [id |-> "permission-error", name |-> "PermissionError",
     route |-> <<"trigger", "permission-error">>, method |-> "GET",
     description |-> "Export project data to a file that was locked read-only by a previous backup job.",
     category |-> "PermissionError"],
    [id |-> "timeout-error", name |-> "TimeoutError",
     route |-> <<"trigger", "timeout-error">>, method |-> "GET",
     description |-> "Run a slow aggregation query that exceeds the configured timeout threshold.",
     category |-> "TimeoutError"],
    [id |-> "thread-error", name |-> "Unhandled Thread Exception",
     route |-> <<"trigger", "thread-error">>, method |-> "GET",
     description |-> "Fire a background notification job whose handler crashes -- exception surfaces via threading.excepthook.",
     category |-> "Unhandled Thread Exception"],
    [id |-> "memory-error", name |-> "MemoryError",
     route |-> <<"trigger", "memory-error">>, method |-> "POST",
     description |-> "Submit an extremely large bulk-import payload that causes excessive memory consumption.",
     category |-> "MemoryError"]
>>

\* Faulty variant of @app.route: methods= is ignored, every rule takes GET
route_get_only(rule, methods, endpoint) ==
    [rule |-> rule, methods |-> {"GET"}, endpoint |-> endpoint]

\* @app.route(rule, methods=methods) on the function named endpoint
route(rule, methods, endpoint) ==
    [rule |-> rule, methods |-> methods, endpoint |-> endpoint]

\* The rules registered by @app.route; without methods= a rule takes GET
url_map == <<
    route(<<>>, {"GET"}, "dashboard"),
    route(<<"api", "bugs">>, {"GET"}, "list_bugs"),
    route(<<"trigger", "type-error">>, {"GET"}, "trigger_type_error"),
    route(<<"trigger", "key-error">>, {"GET"}, "trigger_key_error"),
    route(<<"trigger", "attribute-error">>, {"GET"}, "trigger_attribute_error"),
    route(<<"trigger", "zero-division">>, {"GET"}, "trigger_zero_division"),
    route(<<"trigger", "index-error">>, {"GET"}, "trigger_index_error"),
    route(<<"trigger", "file-not-found">>, {"GET"}, "trigger_file_not_found"),
    route(<<"trigger", "json-decode-error">>, {"GET"}, "trigger_json_decode_error"),
    route(<<"trigger", "unicode-decode-error">>, {"POST"}, "trigger_unicode_decode_error"),
    route(<<"trigger", "recursion-error">>, {"GET"}, "trigger_recursion_error"),
    route(<<"trigger", "connection-error">>, {"GET"}, "trigger_connection_error"),
    route(<<"trigger", "value-error">>, {"POST"}, "trigger_value_error"),
    route(<<"trigger", "permission-error">>, {"GET"}, "trigger_permission_error"),
    route(<<"trigger", "timeout-error">>, {"GET"}, "trigger_timeout_error"),
    route(<<"trigger", "thread-error">>, {"GET"}, "trigger_thread_error"),
    route(<<"trigger", "memory-error">>, {"POST"}, "trigger_memory_error"),
    route(<<"health">>, {"GET"}, "health")
>>

Methods == {"GET", "POST"}

\* Werkzeug's matching of a path and method against the rules: the endpoint,
\* or the HTTP exception raised instead
match_request(path, method) ==
    LET hits == {i \in DOMAIN url_map : url_map[i].rule = path}
    IN IF hits = {} THEN Err(Exc("NotFound", <<"404 Not Found">>))
       ELSE IF \A i \in hits : method \notin url_map[i].methods
       THEN Err(Exc("MethodNotAllowed", <<"405 Method Not Allowed">>))
       ELSE Ok(url_map[CHOOSE i \in hits : method \in url_map[i].methods].endpoint)

-----------------------------------------------------------------------------
(* app.py: responses and the error handler *)

Response(status, mimetype, body) ==
    [status |-> status, mimetype |-> mimetype, body |-> body]

jsonify(body) == Response(200, "application/json", body)

\* render_template("dashboard.html", bugs=BUGS): a page listing the catalog
render_template(template, catalog) ==
    Response(200, "text/html", [template |-> template, bugs |-> catalog])

\* traceback.format_exc() while e is being handled
format_exc(e) == <<"Traceback (most recent call last):", e.kind>> \o e.message

\* Faulty variant of handle_exception: the status is left at jsonify's 200
handle_exception_status_200(e) ==
    [captured |-> <<e>>,
     events |-> <<"capture_exception", "respond">>,
     response |-> jsonify([error |-> e.kind,
                           message |-> e.message,
                           traceback |-> format_exc(e)])]

\* Faulty variant of handle_exception: bugstack.capture_exception is not called
handle_exception_uncaptured(e) ==
    [captured |-> <<>>,
     events |-> <<"respond">>,
     response |-> [jsonify([error |-> e.kind,
                            message |-> e.message,
                            traceback |-> format_exc(e)])
                   EXCEPT !.status = 500]]

\* handle_exception(e): what bugstack.capture_exception receives, then the
\* response, in the order the handler produces them
handle_exception(e) ==
    [captured |-> <<e>>,
     events |-> <<"capture_exception", "respond">>,
     response |-> [jsonify([error |-> e.kind,
                            message |-> e.message,
                            traceback |-> format_exc(e)])
                   EXCEPT !.status = 500]]

\* Faulty variant of _thread_excepthook: the exception is not recorded
_thread_excepthook_unrecorded(e) == [error |-> None, traceback |-> None]

\* _thread_excepthook(args): the record _last_thread_error afterwards
_thread_excepthook(e) == [error |-> Some(e), traceback |-> Some(format_exc(e))]

\* health()
health == jsonify([status |-> "ok", app |-> "bugboy-python"])

\* Faulty variant of list_bugs: the last catalog entry is left out
list_bugs_truncated == jsonify(SubSeq(bugs, 1, Len(bugs) - 1))

\* list_bugs()
list_bugs == jsonify(bugs)

\* dashboard()
dashboard == render_template("dashboard.html", bugs)

-----------------------------------------------------------------------------
(* Threads *)

NoWorker == [state |-> "none", left |-> 0, target |-> "none"]

\* threading.Thread(target=...).start(): the thread first sleeps for `delay`
Started(target, delay) == [state |-> "sleeping", left |-> delay, target |-> target]

\* Faulty variant of process_in_background: a second thread is started
process_in_background_twice ==
    [thread |-> Started("_process_queue", ProcessingDelay), started |-> 2]

\* NotificationQueue.process_in_background(handler): the thread started and
\* how many threads the call starts
process_in_background ==
    [thread |-> Started("_process_queue", ProcessingDelay), started |-> 1]

\* A function given to run_with_timeout: how long it runs and how it ends
slow_aggregation_query ==
    [name |-> "slow_aggregation_query", dur |-> SlowQuerySleep,
     outcome |-> Ok([result |-> "done"])]

NoFunc == [name |-> "none", dur |-> 0, outcome |-> Ok(None)]

\* Locals of a request: the view's and run_with_timeout's
NoFrame ==
    [original_limit |-> 0, queue |-> <<>>, func |-> NoFunc, timeout_sec |-> 0,
     result |-> None, error |-> None, join_left |-> 0, join_timeout |-> 0,
     elapsed |-> 0, alive_at_join |-> FALSE, outcome |-> None,
     threads_started |-> 0, socket_closed |-> FALSE,
     heap |-> <<>>, stack |-> <<>>, names |-> <<>>]

\* Faulty variant of run_with_timeout: thread.is_alive() is not consulted
run_with_timeout_result_no_liveness(alive, f) ==
    IF f.error # None THEN Err(f.error[1])
    ELSE Ok(IF f.result = None THEN None ELSE f.result[1])

\* run_with_timeout after thread.join(timeout=timeout_sec) has returned
run_with_timeout_result(alive, f) ==
    IF alive
    THEN Err(Exc("TimeoutError", <<"Operation timed out after", "timeout_sec">>))
    ELSE IF f.error # None THEN Err(f.error[1])
    ELSE Ok(IF f.result = None THEN None ELSE f.result[1])

-----------------------------------------------------------------------------
(* The state machine *)

NoReq == [path |-> <<>>, method |-> "", args |-> None]

Init ==
    /\ users = seed_users
    /\ projects = seed_projects
    /\ bugs = BUGS
    /\ lastThreadError = [error |-> None, traceback |-> None]
    /\ recursionLimit = InitialRecursionLimit
    /\ files = (ConfigPath("proj-1") :> None) @@ (ExportPath("proj-1") :> None)
    /\ net = None
    /\ pc = [r \in Req |-> "idle"]
    /\ req = [r \in Req |-> NoReq]
    /\ frame = [r \in Req |-> NoFrame]
    /\ worker = [r \in Req |-> NoWorker]
    /\ raised = [r \in Req |-> None]
    /\ captured = [r \in Req |-> <<>>]
    /\ resp = [r \in Req |-> None]
    /\ trace = [r \in Req |-> <<>>]

\* Request r can arrive: requests are numbered in the order of their arrival
Next_request(r) == pc[r] = "idle" /\ \A q \in Req : q < r => pc[q] # "idle"

Arrives(r, path, method, args) ==
    /\ Next_request(r)
    /\ req' = [req EXCEPT ![r] = [path |-> path, method |-> method, args |-> args]]

\* The view returns a response
Return(r, response, events) ==
    /\ resp' = [resp EXCEPT ![r] = Some(response)]
    /\ trace' = [trace EXCEPT ![r] = @ \o events \o <<"respond">>]
    /\ pc' = [pc EXCEPT ![r] = "done"]
    /\ UNCHANGED <<raised, captured>>

\* An exception leaves the request: Flask hands an Exception to
\* handle_exception; anything else escapes the application
Raise(r, e, events) ==
    LET h == handle_exception(e)
    IN /\ raised' = [raised EXCEPT ![r] = Some(e)]
       /\ pc' = [pc EXCEPT ![r] = "done"]
       /\ IF e.is_exception
          THEN /\ captured' = [captured EXCEPT ![r] = @ \o h.captured]
               /\ resp' = [resp EXCEPT ![r] = Some(h.response)]
               /\ trace' = [trace EXCEPT ![r] = @ \o events \o h.events]
          ELSE /\ captured' = captured
               /\ resp' = [resp EXCEPT ![r] =
                              Some(Response(500, "text/html", <<"Internal Server Error">>))]
               /\ trace' = [trace EXCEPT ![r] = @ \o events \o <<"respond">>]

\* The view ends with the result of its service call
Complete(r, result, body, events) ==
    IF result.ok THEN Return(r, jsonify(body), events)
    ELSE Raise(r, RaisedIn(result.exc, r, "request"), events)

Arg(args, default) == IF args = None THEN default ELSE args[1]

Shared == <<users, projects, bugs, lastThreadError, recursionLimit, files, net>>

\* A view that touches nothing shared: path and method are matched, the view
\* runs to its end
View(r, path, method, args, endpoint, result, body) ==
    /\ Arrives(r, path, method, args)
    /\ match_request(path, method) = Ok(endpoint)
    /\ Complete(r, result, body, <<"dispatch">>)
    /\ UNCHANGED <<Shared, frame, worker>>

ArgUserIds == {None, Some(99)}
ArgPoints == {None, Some(0)}
ArgServices == {None, Some("slack")}
ArgCounts == {None, Some(2)}
ArgBodies == {None, Some(ValidCsv)}

Paths == {url_map[i].rule : i \in DOMAIN url_map} \cup {<<"trigger", "no-such-bug">>}

\* No rule matches the path, or none takes the method: Werkzeug raises
\* NotFound or MethodNotAllowed before any view runs
RoutingError(r) ==
    /\ Next_request(r)
    /\ \E path \in Paths, method \in Methods :
        LET m == match_request(path, method)
        IN /\ ~m.ok
           /\ Arrives(r, path, method, None)
           /\ Raise(r, RaisedIn(m.exc, r, "routing"), <<>>)
           /\ UNCHANGED <<Shared, frame, worker>>

Dashboard(r) ==
    /\ Next_request(r)
    /\ \E method \in Methods :
        /\ match_request(<<>>, method) = Ok("dashboard")
        /\ Arrives(r, <<>>, method, None)
        /\ Return(r, dashboard, <<"dispatch">>)
        /\ UNCHANGED <<Shared, frame, worker>>

ListBugs(r) ==
    /\ Next_request(r)
    /\ \E method \in Methods :
        /\ match_request(<<"api", "bugs">>, method) = Ok("list_bugs")
        /\ Arrives(r, <<"api", "bugs">>, method, None)
        /\ Return(r, list_bugs, <<"dispatch">>)
        /\ UNCHANGED <<Shared, frame, worker>>

Health(r) ==
    /\ Next_request(r)
    /\ \E method \in Methods :
        /\ match_request(<<"health">>, method) = Ok("health")
        /\ Arrives(r, <<"health">>, method, None)
        /\ Return(r, health, <<"dispatch">>)
        /\ UNCHANGED <<Shared, frame, worker>>

TriggerTypeError(r) ==
    /\ Next_request(r)
    /\ \E method \in Methods, user_id \in ArgUserIds :
        LET display_name == get_user_display_name(Arg(user_id, DefaultTypeErrorUserId))
        IN View(r, <<"trigger", "type-error">>, method, user_id, "trigger_type_error",
                display_name, [display_name |-> display_name.val])

TriggerKeyError(r) ==
    /\ Next_request(r)
    /\ \E method \in Methods, user_id \in ArgUserIds :
        LET settings == get_user_notifications(Arg(user_id, DefaultKeyErrorUserId))
        IN View(r, <<"trigger", "key-error">>, method, user_id, "trigger_key_error",
                settings, [notifications |-> settings.val])

TriggerAttributeError(r) ==
    /\ Next_request(r)
    /\ \E method \in Methods :
        LET email == get_task_assignee_email("proj-1", "TASK-103")
        IN View(r, <<"trigger", "attribute-error">>, method, None,
                "trigger_attribute_error", email, [assignee_email |-> email.val])

TriggerZeroDivision(r) ==
    /\ Next_request(r)
    /\ \E method \in Methods, points \in ArgPoints :
        LET report == generate_velocity_report("proj-1", Arg(points, DefaultPoints))
        IN View(r, <<"trigger", "zero-division">>, method, points,
                "trigger_zero_division", report, report.val)

TriggerIndexError(r) ==
    /\ Next_request(r)
    /\ \E method \in Methods :
        LET comment == get_latest_comment("proj-1", "TASK-101")
        IN View(r, <<"trigger", "index-error">>, method, None,
                "trigger_index_error", comment, [latest_comment |-> comment.val])

TriggerFileNotFound(r) ==
    /\ Next_request(r)
    /\ \E method \in Methods :
        LET config == load_project_config(files, "proj-1")
        IN View(r, <<"trigger", "file-not-found">>, method, None,
                "trigger_file_not_found", config, config.val)

TriggerJsonDecodeError(r) ==
    /\ Next_request(r)
    /\ \E method \in Methods, service \in ArgServices :
        LET data == fetch_integration_data(Arg(service, "webhook"))
        IN View(r, <<"trigger", "json-decode-error">>, method, service,
                "trigger_json_decode_error", data, data.val)

\* services.parse_incoming_webhook(bad_payload)
bad_payload_result == parse_incoming_webhook(BadPayload)

TriggerUnicodeDecodeError(r) ==
    /\ Next_request(r)
    /\ \E method \in Methods :
        LET result == bad_payload_result
        IN View(r, <<"trigger", "unicode-decode-error">>, method, None,
                "trigger_unicode_decode_error", result, result.val)

\* The host is unreachable in one of the ways of NetModes, the same way for
\* the life of the process; the way shows at the first connection attempt
Network == IF net = None THEN NetModes ELSE {net[1]}

TriggerConnectionError(r) ==
    /\ Next_request(r)
    /\ \E method \in Methods, network \in Network :
        LET c == connect_to_database(network, "db.internal.local", DbPort, DbTimeout)
        IN /\ match_request(<<"trigger", "connection-error">>, method)
                = Ok("trigger_connection_error")
           /\ Arrives(r, <<"trigger", "connection-error">>, method, None)
           /\ Complete(r, c.res, [status |-> "connected"], <<"dispatch">>)
           /\ frame' = [frame EXCEPT ![r].socket_closed = c.closed]
           /\ net' = Some(network)
           /\ UNCHANGED <<users, projects, bugs, lastThreadError, recursionLimit,
                          files, worker>>

TriggerValueError(r) ==
    /\ Next_request(r)
    /\ \E method \in Methods, data \in ArgBodies :
        LET csv_data == IF data = None \/ data[1] = <<>> THEN DefaultCsv ELSE data[1]
            tasks == imported_tasks[csv_data]
        IN View(r, <<"trigger", "value-error">>, method, data, "trigger_value_error",
                tasks, [imported |-> Len(tasks.val), tasks |-> tasks.val])

TriggerPermissionError(r) ==
    /\ Next_request(r)
    /\ \E method \in Methods :
        LET project == IF "proj-1" \in DOMAIN projects THEN Some(projects["proj-1"])
                       ELSE None
            task_data == [i \in DOMAIN project[1].tasks |->
                              to_dict(users, project[1].tasks[i])]
            w == IF project = None
                 THEN [res |-> Err(NoneAttr("tasks")), files |-> files]
                 ELSE write_export_file(files, "proj-1", task_data)
        IN /\ match_request(<<"trigger", "permission-error">>, method)
                = Ok("trigger_permission_error")
           /\ Arrives(r, <<"trigger", "permission-error">>, method, None)
           /\ files' = w.files
           /\ Complete(r, w.res, [exported_to |-> w.res.val], <<"dispatch">>)
           /\ UNCHANGED <<users, projects, bugs, lastThreadError, recursionLimit,
                          net, frame, worker>>

\* services.process_bulk_import(generate_large_payload(count)) for each
\* count a request can carry
bulk_import_results ==
    [count \in {Arg(c, DefaultCount) : c \in ArgCounts} |->
        process_bulk_import_count(Len(generate_large_payload(count)))]

TriggerMemoryError(r) ==
    /\ Next_request(r)
    /\ \E method \in Methods, count \in ArgCounts :
        LET result == bulk_import_results[Arg(count, DefaultCount)]
        IN View(r, <<"trigger", "memory-error">>, method, count,
                "trigger_memory_error", result, result.val)

\* trigger_recursion_error up to the try: the limit is read, then lowered
TriggerRecursionError(r) ==
    /\ Next_request(r)
    /\ \E method \in Methods :
        /\ match_request(<<"trigger", "recursion-error">>, method)
             = Ok("trigger_recursion_error")
        /\ Arrives(r, <<"trigger", "recursion-error">>, method, None)
        /\ frame' = [frame EXCEPT ![r].original_limit = recursionLimit]
        /\ recursionLimit' = LoweredRecursionLimit
        /\ pc' = [pc EXCEPT ![r] = "flatten"]
        /\ trace' = [trace EXCEPT ![r] = @ \o <<"dispatch">>]
        /\ UNCHANGED <<users, projects, bugs, lastThreadError, files, net,
                       worker, raised, captured, resp>>

\* services.build_recursive_categories() under each limit the process has
recursive_categories ==
    [limit \in {LoweredRecursionLimit, InitialRecursionLimit} |->
        build_recursive_categories(limit)]

\* The try block and its finally: the tree is flattened under the limit in
\* force, the limit read at entry is put back, the result or exception leaves
RecursionFlatten(r) ==
    /\ pc[r] = "flatten"
    /\ LET categories == recursive_categories[recursionLimit]
       IN Complete(r, categories, [categories |-> categories.val], <<>>)
    /\ recursionLimit' = frame[r].original_limit
    /\ UNCHANGED <<users, projects, bugs, lastThreadError, files, net,
                   req, frame, worker>>

\* run_with_timeout(func, timeout_sec) up to thread.join: the cells are
\* made, the worker is started, the caller waits
StartRunWithTimeout(r, func, timeout_sec) ==
    /\ frame' = [frame EXCEPT ![r].func = func, ![r].timeout_sec = timeout_sec,
                              ![r].result = None, ![r].error = None,
                              ![r].join_left = timeout_sec,
                              ![r].join_timeout = timeout_sec,
                              ![r].elapsed = 0,
                              ![r].threads_started = @ + 1]
    /\ worker' = [worker EXCEPT ![r] = Started("wrapper", func.dur)]
    /\ pc' = [pc EXCEPT ![r] = "join_timeout"]
    /\ trace' = [trace EXCEPT ![r] = @ \o <<"dispatch", "thread_start", "join">>]

TriggerTimeoutError(r) ==
    /\ Next_request(r)
    /\ \E method \in Methods :
        /\ match_request(<<"trigger", "timeout-error">>, method)
             = Ok("trigger_timeout_error")
        /\ Arrives(r, <<"trigger", "timeout-error">>, method, None)
        /\ StartRunWithTimeout(r, slow_aggregation_query, TimeoutSec)
        /\ UNCHANGED <<Shared, raised, captured, resp>>

\* Faulty variant of wrapper(): no try/except, so every exception of func
\* ends the thread and reaches threading.excepthook
wrapper_uncaught(r) ==
    /\ worker[r].state = "sleeping"
    /\ worker[r].target = "wrapper"
    /\ worker[r].left = 0
    /\ worker' = [worker EXCEPT ![r].state = "done"]
    /\ LET o == frame[r].func.outcome
       IN IF o.ok
          THEN /\ frame' = [frame EXCEPT ![r].result = Some(o.val)]
               /\ UNCHANGED lastThreadError
          ELSE /\ lastThreadError' = _thread_excepthook(RaisedIn(o.exc, r, "worker"))
               /\ UNCHANGED frame
    /\ UNCHANGED <<users, projects, bugs, recursionLimit, files, net,
                   pc, req, raised, captured, resp, trace>>

\* wrapper() of run_with_timeout, when func has run for its time: a value
\* goes to result[0], an Exception to error[0]; anything else is not
\* caught, ends the thread and reaches threading.excepthook
wrapper(r) ==
    /\ worker[r].state = "sleeping"
    /\ worker[r].target = "wrapper"
    /\ worker[r].left = 0
    /\ worker' = [worker EXCEPT ![r].state = "done"]
    /\ LET o == frame[r].func.outcome
       IN IF o.ok
          THEN /\ frame' = [frame EXCEPT ![r].result = Some(o.val)]
               /\ UNCHANGED lastThreadError
          ELSE IF o.exc.is_exception
          THEN /\ frame' = [frame EXCEPT ![r].error = Some(RaisedIn(o.exc, r, "worker"))]
               /\ UNCHANGED lastThreadError
          ELSE /\ lastThreadError' = _thread_excepthook(RaisedIn(o.exc, r, "worker"))
               /\ UNCHANGED frame
    /\ UNCHANGED <<users, projects, bugs, recursionLimit, files, net,
                   pc, req, raised, captured, resp, trace>>

\* run_with_timeout from the return of thread.join, and the view's
\* jsonify(result): the join returns when the worker has ended or the
\* deadline has passed
RunWithTimeoutReturn(r) ==
    /\ pc[r] = "join_timeout"
    /\ worker[r].state = "done" \/ frame[r].join_left = 0
    /\ LET alive == worker[r].state = "sleeping"
           o == run_with_timeout_result(alive, frame[r])
           outcome == IF o.ok \/ o.exc.req # 0 THEN o
                      ELSE Err(RaisedIn(o.exc, r, "request"))
       IN /\ frame' = [frame EXCEPT ![r].alive_at_join = alive,
                                    ![r].outcome = Some(outcome)]
          /\ IF outcome.ok THEN Return(r, jsonify(outcome.val), <<>>)
             ELSE Raise(r, outcome.exc, <<>>)
    /\ UNCHANGED <<Shared, req, worker>>

\* trigger_thread_error up to thread.join: the shared record is reset, the
\* notification is queued and its thread started
TriggerThreadError(r) ==
    /\ Next_request(r)
    /\ \E method \in Methods :
        LET notification == [user_id |-> NotifyUserId, type |-> "task_assigned",
                             ts |-> "time.time()"]
            bg == process_in_background
        IN /\ match_request(<<"trigger", "thread-error">>, method)
                = Ok("trigger_thread_error")
           /\ Arrives(r, <<"trigger", "thread-error">>, method, None)
           /\ lastThreadError' = [error |-> None, traceback |-> None]
           /\ frame' = [frame EXCEPT ![r].queue = <<notification>>,
                                     ![r].join_left = ThreadJoinTimeout,
                                     ![r].join_timeout = ThreadJoinTimeout,
                                     ![r].elapsed = 0,
                                     ![r].threads_started = @ + bg.started]
           /\ worker' = [worker EXCEPT ![r] = bg.thread]
           /\ pc' = [pc EXCEPT ![r] = "join_thread"]
           /\ trace' = [trace EXCEPT ![r] = @ \o <<"dispatch", "thread_start", "join">>]
           /\ UNCHANGED <<users, projects, bugs, recursionLimit, files, net,
                          raised, captured, resp>>

\* The first notification of the queue whose handler raises, as an
\* exception, or None
RECURSIVE FirstFailure(_, _)
FirstFailure(queue, i) ==
    IF i > Len(queue) THEN None
    ELSE LET h == _handler(queue[i])
         IN IF h.ok THEN FirstFailure(queue, i + 1) ELSE Some(h.exc)

\* NotificationQueue._process_queue after its sleep: the handler runs on
\* each notification; an exception ends the thread through
\* threading.excepthook
_process_queue(r) ==
    /\ worker[r].state = "sleeping"
    /\ worker[r].target = "_process_queue"
    /\ worker[r].left = 0
    /\ worker' = [worker EXCEPT ![r].state = "done"]
    /\ LET failure == FirstFailure(frame[r].queue, 1)
       IN lastThreadError' =
            IF failure = None THEN lastThreadError
            ELSE _thread_excepthook(RaisedIn(failure[1], r, "worker"))
    /\ UNCHANGED <<users, projects, bugs, recursionLimit, files, net,
                   pc, req, frame, raised, captured, resp, trace>>

\* thread.join(timeout=5) returns and `if _last_thread_error["error"]` is
\* evaluated
ThreadErrorCheck(r) ==
    /\ pc[r] = "join_thread"
    /\ worker[r].state = "done" \/ frame[r].join_left = 0
    /\ frame' = [frame EXCEPT ![r].alive_at_join = (worker[r].state = "sleeping")]
    /\ IF lastThreadError.error # None
       THEN /\ pc' = [pc EXCEPT ![r] = "reraise"]
            /\ UNCHANGED <<raised, captured, resp, trace>>
       ELSE Return(r, jsonify([status |-> "notification sent"]), <<>>)
    /\ UNCHANGED <<Shared, req, worker>>

\* raise _last_thread_error["error"]: the record is read again; raising
\* None is a TypeError
ThreadErrorReraise(r) ==
    /\ pc[r] = "reraise"
    /\ IF lastThreadError.error = None
       THEN Raise(r, RaisedIn(Exc("TypeError",
                        <<"exceptions must derive from BaseException">>), r, "request"),
                  <<>>)
       ELSE Raise(r, lastThreadError.error[1], <<>>)
    /\ UNCHANGED <<Shared, req, frame, worker>>

\* Time passes, up to the next expiry, when no thread can take a step
Joining(r) == pc[r] \in {"join_timeout", "join_thread"}
Timers == {frame[r].join_left : r \in {q \in Req : Joining(q)}}
            \cup {worker[r].left : r \in {q \in Req : worker[q].state = "sleeping"}}

Tick ==
    /\ Timers # {}
    /\ 0 \notin Timers
    /\ \A r \in Req : /\ pc[r] \notin {"flatten", "reraise"}
                      /\ ~(Joining(r) /\ worker[r].state = "done")
    /\ LET d == CHOOSE t \in Timers : \A u \in Timers : t <= u
       IN /\ frame' = [r \in Req |->
                         IF Joining(r)
                         THEN [frame[r] EXCEPT !.join_left = @ - d, !.elapsed = @ + d]
                         ELSE frame[r]]
          /\ worker' = [r \in Req |->
                          IF worker[r].state = "sleeping"
                          THEN [worker[r] EXCEPT !.left = @ - d]
                          ELSE worker[r]]
    /\ UNCHANGED <<Shared, pc, req, raised, captured, resp, trace>>

Next ==
    \/ \E r \in Req :
        \/ RoutingError(r)
        \/ Dashboard(r)
        \/ ListBugs(r)
        \/ Health(r)
        \/ TriggerTypeError(r)
        \/ TriggerKeyError(r)
        \/ TriggerAttributeError(r)
        \/ TriggerZeroDivision(r)
        \/ TriggerIndexError(r)
        \/ TriggerFileNotFound(r)
        \/ TriggerJsonDecodeError(r)
        \/ TriggerUnicodeDecodeError(r)
        \/ TriggerRecursionError(r)
        \/ RecursionFlatten(r)
        \/ TriggerConnectionError(r)
        \/ TriggerValueError(r)
        \/ TriggerPermissionError(r)
        \/ TriggerTimeoutError(r)
        \/ wrapper(r)
        \/ RunWithTimeoutReturn(r)
        \/ TriggerThreadError(r)
        \/ _process_queue(r)
        \/ ThreadErrorCheck(r)
        \/ ThreadErrorReraise(r)
        \/ TriggerMemoryError(r)
    \/ Tick

Spec == Init /\ [][Next]_vars

-----------------------------------------------------------------------------
(* run_with_timeout on its own: it is called with functions of every        *)
(* duration up to MaxDur that return a value, return None, raise an         *)
(* Exception or raise a BaseException that is no Exception, under every     *)
(* deadline up to MaxTimeout, beside the call trigger_timeout_error makes.  *)
(* The caller passes the result on as trigger_timeout_error does.           *)

FuncOutcomes ==
    {Ok([value |-> "computed"]), Ok(None),
     Err(Exc("RuntimeError", <<"func failed">>)),
     Err(BaseExc("SystemExit", <<>>))}

Funcs == {[name |-> "func", dur |-> d, outcome |-> o] :
            d \in 0..MaxDur, o \in FuncOutcomes}

CallRunWithTimeout(r) ==
    /\ Next_request(r)
    /\ r <= MaxCalls
    /\ \E func \in Funcs, timeout_sec \in 1..MaxTimeout :
        /\ Arrives(r, <<"run_with_timeout">>, "CALL", None)
        /\ StartRunWithTimeout(r, func, timeout_sec)
        /\ UNCHANGED <<Shared, raised, captured, resp>>

RwtNext ==
    \/ \E r \in Req :
        \/ CallRunWithTimeout(r)
        \/ TriggerTimeoutError(r)
        \/ wrapper(r)
        \/ RunWithTimeoutReturn(r)
    \/ Tick

RwtSpec == Init /\ [][RwtNext]_vars

-----------------------------------------------------------------------------
(* Properties *)

Done(r) == pc[r] = "done"
Count(seq, x) == Cardinality({i \in DOMAIN seq : seq[i] = x})
Json(r) == resp[r] # None /\ resp[r][1].mimetype = "application/json"
\* The view of the request ran: routing found an endpoint taking the method
Dispatched(r) == Count(trace[r], "dispatch") = 1
Entries(path) == {i \in DOMAIN bugs : bugs[i].route = path}
TriggerPath(id) == <<"trigger", id>>

InMemoryIds ==
    {"type-error", "key-error", "attribute-error", "zero-division", "index-error",
     "json-decode-error", "unicode-decode-error", "value-error"}

\* C1: each in-memory trigger route (type-error, key-error, attribute-error,
\* zero-division, index-error, json-decode-error, unicode-decode-error,
\* value-error), requested with the catalog's method and no parameters, ends
\* with the service call raising the exception kind the catalog names for the
\* route, and the response is status 500 with error equal to that name.
C1_DefaultTriggersRaiseCatalogKind ==
    \A r \in Req : \A i \in DOMAIN bugs :
        (/\ Done(r)
         /\ bugs[i].id \in InMemoryIds
         /\ req[r].path = bugs[i].route
         /\ req[r].method = bugs[i].method
         /\ req[r].args = None)
        => /\ raised[r] # None
           /\ raised[r][1].kind = bugs[i].name
           /\ raised[r][1].req = r
           /\ raised[r][1].thread = "request"
           /\ Json(r)
           /\ resp[r][1].status = 500
           /\ resp[r][1].body.error = bugs[i].name

\* Two in-memory routes have answered: the attribute-error route, which
\* depends on the seeded task without assignee, and the value-error route,
\* which parses the default CSV.
C1_Witness ==
    \E r, q \in Req :
        /\ Done(r) /\ Done(q)
        /\ req[r] = [path |-> TriggerPath("attribute-error"), method |-> "GET",
                     args |-> None]
        /\ resp[r][1].body.error = "AttributeError"
        /\ req[q] = [path |-> TriggerPath("value-error"), method |-> "POST",
                     args |-> None]
        /\ resp[q][1].body.error = "ValueError"

JsonSuccess(r) ==
    /\ raised[r] = None
    /\ Json(r)
    /\ resp[r][1].status = 200

JsonError(r) ==
    /\ raised[r] # None
    /\ Json(r)
    /\ resp[r][1].status = 500
    /\ DOMAIN resp[r][1].body = {"error", "message", "traceback"}
    /\ resp[r][1].body.error = raised[r][1].kind
    /\ resp[r][1].body.message = raised[r][1].message

\* The dashboard view ran for the request
DashboardServed(r) == req[r].path = <<>> /\ Dispatched(r)

\* C2 (as amended): every request other than one the dashboard view serves
\* ends in exactly one of two outcomes, a JSON success body or, whenever
\* handling it raised any exception, a status-500 JSON object with exactly
\* the fields error, message and traceback, error being the kind of the raised
\* exception and message its string form; a request the dashboard view serves
\* ends with status 200 and an HTML page, not JSON.
C2_JsonSuccessOrJsonError ==
    \A r \in Req :
        Done(r) =>
            IF DashboardServed(r)
            THEN /\ raised[r] = None
                 /\ resp[r][1].status = 200
                 /\ resp[r][1].mimetype = "text/html"
            ELSE /\ JsonSuccess(r) \/ JsonError(r)
                 /\ ~(JsonSuccess(r) /\ JsonError(r))

\* One request has ended with a JSON success body and another with the 500
\* JSON object
C2_Witness ==
    \E r, q \in Req :
        /\ Done(r) /\ Done(q)
        /\ ~DashboardServed(r) /\ JsonSuccess(r)
        /\ JsonError(q)

\* C2 as the specification states it: every request ends with a JSON success
\* body or with the status-500 JSON object.
C2_EveryRequestEndsInJson ==
    \A r \in Req : Done(r) => JsonSuccess(r) \/ JsonError(r)

\* C3: for every request that raises, that same exception is forwarded to
\* capture_exception exactly once and before the 500 response is produced;
\* the exception is the one the request's own call raised, nothing is
\* dispatched twice, a request that succeeds forwards nothing, and nothing is
\* forwarded while a request is still being handled.
C3_CapturedOnceBeforeResponse ==
    \A r \in Req :
        /\ ~Done(r) =>
              /\ captured[r] = <<>>
              /\ Count(trace[r], "capture_exception") = 0
              /\ Count(trace[r], "respond") = 0
        /\ (Done(r) /\ raised[r] = None) =>
              /\ captured[r] = <<>>
              /\ Count(trace[r], "capture_exception") = 0
              /\ Count(trace[r], "respond") = 1
        /\ (Done(r) /\ raised[r] # None) =>
              /\ captured[r] = <<raised[r][1]>>
              /\ Count(trace[r], "capture_exception") = 1
              /\ Count(trace[r], "respond") = 1
              /\ Len(trace[r]) >= 2
              /\ trace[r][Len(trace[r]) - 1] = "capture_exception"
              /\ trace[r][Len(trace[r])] = "respond"
              /\ resp[r][1].status = 500
              /\ Count(trace[r], "dispatch") <= 1
              /\ Count(trace[r], "thread_start") <= 1
              /\ (req[r].path # TriggerPath("thread-error") => raised[r][1].req = r)

\* A route has raised after its view was dispatched; the exception was
\* captured and the response followed
C3_Witness ==
    \E r \in Req :
        /\ Done(r)
        /\ raised[r] # None
        /\ captured[r] = <<raised[r][1]>>
        /\ trace[r] = <<"dispatch", "capture_exception", "respond">>

\* C4: in every reachable state the catalog is the one defined at startup, a
\* served GET /health has answered 200 with {status: ok, app: bugboy-python}
\* and a served GET /api/bugs has answered 200 with that catalog.
C4_HealthAndCatalogStatic ==
    /\ bugs = BUGS
    /\ \A r \in Req :
        /\ (Done(r) /\ req[r].path = <<"health">> /\ req[r].method = "GET") =>
              /\ raised[r] = None
              /\ resp[r] = Some(Response(200, "application/json",
                                         [status |-> "ok", app |-> "bugboy-python"]))
        /\ (Done(r) /\ req[r].path = <<"api", "bugs">> /\ req[r].method = "GET") =>
              /\ raised[r] = None
              /\ resp[r] = Some(Response(200, "application/json", BUGS))

\* After a trigger request has timed out with a 500, /api/bugs has been
\* served
C4_Witness ==
    \E q, r \in Req :
        /\ q < r
        /\ Done(q) /\ Done(r)
        /\ req[q].path = TriggerPath("timeout-error")
        /\ resp[q][1].status = 500
        /\ req[r].path = <<"api", "bugs">>
        /\ resp[r][1].status = 200

TriggerRules == {i \in DOMAIN url_map :
                    url_map[i].rule # <<>> /\ url_map[i].rule[1] = "trigger"}

\* The catalog as defined and the registered rules correspond one to one
CatalogOneToOne ==
    /\ \A i, j \in DOMAIN BUGS :
          i # j => BUGS[i].id # BUGS[j].id /\ BUGS[i].route # BUGS[j].route
    /\ \A i \in DOMAIN BUGS :
          /\ BUGS[i].method \in Methods
          /\ \A method \in Methods :
                match_request(BUGS[i].route, method).ok <=> method = BUGS[i].method
    /\ \A k \in TriggerRules :
          Cardinality({i \in DOMAIN BUGS : BUGS[i].route = url_map[k].rule}) = 1

\* C5: catalog entries have pairwise distinct ids and routes; each entry's
\* route is registered and, of GET and POST, takes exactly the method the entry
\* lists; every registered /trigger/ rule is the route of exactly one entry;
\* and a request to an entry's route reaches the view exactly when it uses the
\* entry's method, otherwise it is refused as MethodNotAllowed.
C5_CatalogMatchesRoutes ==
    /\ bugs = BUGS
    /\ CatalogOneToOne
    /\ \A r \in Req : \A i \in DOMAIN bugs :
          (pc[r] # "idle" /\ req[r].path = bugs[i].route) =>
              IF req[r].method = bugs[i].method
              THEN Dispatched(r)
              ELSE /\ ~Dispatched(r)
                   /\ raised[r] # None
                   /\ raised[r][1].kind = "MethodNotAllowed"

\* The value-error route, the catalog's POST entry, has taken a POST and
\* refused a GET
C5_Witness ==
    \E r, q \in Req :
        /\ Done(r) /\ Done(q)
        /\ req[r].path = TriggerPath("value-error") /\ req[r].method = "POST"
        /\ Dispatched(r)
        /\ req[q].path = TriggerPath("value-error") /\ req[q].method = "GET"
        /\ raised[q][1].kind = "MethodNotAllowed"

ThreadRoutes == {TriggerPath("timeout-error"), TriggerPath("thread-error")}

\* C6: handling one request starts at most one worker thread; a dispatched
\* timeout-error or thread-error request has started exactly one and joins it
\* with a deadline of 2 seconds and 5 seconds respectively (20 and 50 tenths),
\* responding only after the join, which lasts no longer than the deadline;
\* no other request starts any thread.
C6_AtMostOneWorkerJoinedWithDeadline ==
    \A r \in Req :
        /\ frame[r].threads_started <= 1
        /\ Count(trace[r], "thread_start") = frame[r].threads_started
        /\ (Dispatched(r) /\ req[r].path \in ThreadRoutes) =>
              /\ frame[r].threads_started = 1
              /\ worker[r] # NoWorker
              /\ frame[r].join_timeout =
                    IF req[r].path = TriggerPath("timeout-error") THEN 2 * 10 ELSE 5 * 10
              /\ frame[r].elapsed <= frame[r].join_timeout
              /\ Count(trace[r], "join") = 1
              /\ Done(r) =>
                    \E i, j \in DOMAIN trace[r] :
                        /\ i < j
                        /\ trace[r][i] = "join"
                        /\ trace[r][j] = "respond"
        /\ ~(Dispatched(r) /\ req[r].path \in ThreadRoutes) =>
              /\ frame[r].threads_started = 0
              /\ worker[r] = NoWorker

\* A timeout-error request and a thread-error request have both answered,
\* each after joining the one thread it started
C6_Witness ==
    \E r, q \in Req :
        /\ Done(r) /\ Done(q)
        /\ req[r].path = TriggerPath("timeout-error")
        /\ frame[r].threads_started = 1 /\ frame[r].elapsed = 2 * 10
        /\ req[q].path = TriggerPath("thread-error")
        /\ frame[q].threads_started = 1 /\ frame[q].elapsed <= 5 * 10

\* A call of run_with_timeout by r has returned or raised
Returned(r) == Done(r) /\ frame[r].outcome # None

\* run_with_timeout itself raised TimeoutError to the caller
TimedOut(r) ==
    /\ ~frame[r].outcome[1].ok
    /\ frame[r].outcome[1].exc.kind = "TimeoutError"
    /\ frame[r].outcome[1].exc.thread = "request"

\* The join returned no later than its deadline, at the deadline if the
\* worker was still running; TimeoutError exactly if it was still running
RwtDeadline(r) ==
    /\ frame[r].elapsed <= frame[r].timeout_sec
    /\ frame[r].alive_at_join => frame[r].elapsed = frame[r].timeout_sec
    /\ TimedOut(r) <=> frame[r].alive_at_join
    /\ ~frame[r].alive_at_join => worker[r].state = "done"

\* The timeout-error route answers 500 TimeoutError
RwtRoute(r) ==
    req[r].path = TriggerPath("timeout-error") =>
        /\ TimedOut(r)
        /\ resp[r][1].status = 500
        /\ resp[r][1].body.error = "TimeoutError"

\* C7 (as amended): run_with_timeout has four outcomes, decided by the
\* worker's state when the join returns: TimeoutError exactly if the worker is
\* still running at the deadline, without waiting further; if the worker ended
\* by raising an Exception, that exception is re-raised to the caller; if it
\* ended by raising a BaseException that is no Exception (SystemExit), None is
\* returned; otherwise the value func returned is returned.  The timeout-error
\* route always yields a 500 TimeoutError.
C7_RunWithTimeoutOutcomes ==
    \A r \in Req :
        Returned(r) =>
            LET o == frame[r].func.outcome
            IN /\ RwtDeadline(r)
               /\ ~frame[r].alive_at_join =>
                     frame[r].outcome[1] =
                        (IF o.ok THEN o
                         ELSE IF o.exc.is_exception
                         THEN Err(RaisedIn(o.exc, r, "worker"))
                         ELSE Ok(None))
               /\ RwtRoute(r)

\* A call has re-raised the Exception its worker ended with
C7_Witness ==
    \E r \in Req :
        /\ Returned(r)
        /\ ~frame[r].alive_at_join
        /\ ~frame[r].func.outcome.ok
        /\ frame[r].outcome[1] = Err(RaisedIn(frame[r].func.outcome.exc, r, "worker"))
        /\ resp[r][1].body.error = "RuntimeError"

\* C7 as the specification states it: three outcomes, whatever the worker
\* raised is re-raised to the caller.
C7_ThreeOutcomes ==
    \A r \in Req :
        Returned(r) =>
            LET o == frame[r].func.outcome
            IN /\ RwtDeadline(r)
               /\ ~frame[r].alive_at_join =>
                     frame[r].outcome[1] =
                        (IF o.ok THEN o ELSE Err(RaisedIn(o.exc, r, "worker")))
               /\ RwtRoute(r)

\* run_with_timeout raised TimeoutError to r and left the worker behind
Abandoned(r) == Returned(r) /\ frame[r].alive_at_join

\* The abandoned worker of r ends in this step
AbandonedWorkerEnds(r) ==
    /\ Abandoned(r)
    /\ worker[r].state = "sleeping"
    /\ worker'[r].state = "done"

\* The abandoned worker is not cancelled, and the caller's outcome stays
AbandonedRunsOn(r) ==
    Abandoned(r) =>
        /\ TimedOut(r)
        /\ resp[r][1].status = 500
        /\ resp[r][1].body.error = "TimeoutError"
        /\ worker[r].state \in {"sleeping", "done"}
        /\ worker[r].state = "done" =>
              /\ worker[r].left = 0
              /\ frame[r].func.outcome.ok =>
                    frame[r].result = Some(frame[r].func.outcome.val)
              /\ (~frame[r].func.outcome.ok /\ frame[r].func.outcome.exc.is_exception) =>
                    frame[r].error = Some(RaisedIn(frame[r].func.outcome.exc, r, "worker"))

\* Nothing the caller or any request has been given changes
NothingDelivered(r) ==
    /\ resp' = resp
    /\ raised' = raised
    /\ captured' = captured
    /\ pc' = pc
    /\ trace' = trace
    /\ frame'[r].outcome = frame[r].outcome

\* C8 (as amended): after run_with_timeout raises TimeoutError the worker is
\* abandoned, not cancelled: it runs func to its end, and what it then
\* produces is never delivered to the caller and changes no response; a value
\* or an Exception stays in the cells of the call and does not reach the
\* thread exception hook, while a BaseException that is no Exception does
\* reach the hook.
C8_AbandonedWorker ==
    /\ [](\A r \in Req : AbandonedRunsOn(r))
    /\ [][\A r \in Req :
            AbandonedWorkerEnds(r) =>
                /\ NothingDelivered(r)
                /\ IF frame[r].func.outcome.ok \/ frame[r].func.outcome.exc.is_exception
                   THEN lastThreadError' = lastThreadError
                   ELSE lastThreadError'.error =
                            Some(RaisedIn(frame[r].func.outcome.exc, r, "worker"))]_vars

\* An abandoned worker has run func to its end and stored the value, while
\* the caller keeps its TimeoutError
C8_Witness ==
    \E r \in Req :
        /\ Abandoned(r)
        /\ worker[r].state = "done"
        /\ frame[r].result # None
        /\ resp[r][1].body.error = "TimeoutError"

\* C8 as the specification states it: nothing an abandoned worker produces
\* reaches the caller, a response or the thread exception hook.
C8_NothingReachesHook ==
    [][\A r \in Req :
            AbandonedWorkerEnds(r) =>
                /\ NothingDelivered(r)
                /\ lastThreadError' = lastThreadError]_vars

\* C9: each dispatched /trigger/thread-error request responds 500 with the
\* exception raised by the background thread it started itself, for every
\* interleaving of such requests.
C9_ThreadErrorIsolated ==
    \A r \in Req :
        (Done(r) /\ req[r].path = TriggerPath("thread-error") /\ Dispatched(r)) =>
            /\ resp[r][1].status = 500
            /\ raised[r] # None
            /\ raised[r][1].req = r
            /\ raised[r][1].thread = "worker"

\* What a request ended with: the status, and the exception kind or the body
Outcome(r) ==
    [status |-> resp[r][1].status,
     error |-> IF raised[r] = None THEN None ELSE Some(raised[r][1].kind),
     body |-> IF raised[r] = None THEN Some(resp[r][1].body) ELSE None]

\* C10: no request modifies the seeded users, projects or tasks, and two
\* requests with the same route, method and parameters end with the same
\* outcome, whatever was handled before or between them.
C10_Deterministic ==
    /\ users = seed_users
    /\ projects = seed_projects
    /\ \A r, q \in Req :
          (Done(r) /\ Done(q) /\ req[r] = req[q]) => Outcome(r) = Outcome(q)

-----------------------------------------------------------------------------
(* CategoryTree.flatten on its own: it is called on the tree of             *)
(* build_category_tree and on the tree of build_recursive_categories and    *)
(* runs call by call, under the recursion limit in force, beside            *)
(* /trigger/recursion-error requests, which lower and restore that limit.   *)

Trees == {build_category_tree, recursive_tree}

CallFlatten(r) ==
    /\ Next_request(r)
    /\ r <= MaxCalls
    /\ \E tree \in Trees :
        LET entry == flatten_entry(tree.heap, tree.root)
        IN /\ Arrives(r, <<"flatten", tree.heap[tree.root].name>>, "CALL", None)
           /\ frame' = [frame EXCEPT ![r].heap = tree.heap,
                                     ![r].stack = entry.stack,
                                     ![r].names = entry.result]
           /\ pc' = [pc EXCEPT ![r] = "walking"]
           /\ UNCHANGED <<Shared, worker, raised, captured, resp, trace>>

\* The next return or call of the flatten in progress; the list of the
\* outermost call goes to the caller, a RecursionError leaves through it
FlattenStep(r) ==
    /\ pc[r] = "walking"
    /\ LET f == frame[r]
           next == flatten_step(f.heap, f.stack, f.names, recursionLimit)
       IN IF next.raised
          THEN /\ Raise(r, RaisedIn(RecursionError, r, "request"), <<>>)
               /\ UNCHANGED frame
          ELSE /\ frame' = [frame EXCEPT ![r].stack = next.stack,
                                         ![r].names = next.result]
               /\ IF next.stack = <<>>
                  THEN Return(r, jsonify([categories |-> next.result]), <<>>)
                  ELSE UNCHANGED <<pc, raised, captured, resp, trace>>
    /\ UNCHANGED <<Shared, req, worker>>

FlattenNext ==
    \E r \in Req :
        \/ CallFlatten(r)
        \/ FlattenStep(r)
        \/ TriggerRecursionError(r)
        \/ RecursionFlatten(r)

FlattenSpec == Init /\ [][FlattenNext]_vars

-----------------------------------------------------------------------------
(* services.write_export_file called on its own, beside the route that     *)
(* calls it.  The .exports directory outlives the process: at the start an *)
(* export file is missing, or is there from an earlier run, writable or    *)
(* read-only, holding the placeholder or something else.                   *)

ExportProjects == {"proj-1", "proj-2"}
EarlierExport == [tasks |-> <<>>]

ExportFiles ==
    {None} \cup {Some([readonly |-> ro, content |-> c]) :
                    ro \in BOOLEAN, c \in {Placeholder, EarlierExport}}

\* [t.to_dict() for t in project.tasks] of proj-1, and of a project without tasks
ExportData ==
    {<<>>,
     [i \in DOMAIN seed_projects["proj-1"].tasks |->
         to_dict(seed_users, seed_projects["proj-1"].tasks[i])]}

ExportInit ==
    /\ users = seed_users
    /\ projects = seed_projects
    /\ bugs = BUGS
    /\ lastThreadError = [error |-> None, traceback |-> None]
    /\ recursionLimit = InitialRecursionLimit
    /\ \E exports \in [{ExportPath(p) : p \in ExportProjects} -> ExportFiles] :
          files = (ConfigPath("proj-1") :> None) @@ exports
    /\ net = None
    /\ pc = [r \in Req |-> "idle"]
    /\ req = [r \in Req |-> NoReq]
    /\ frame = [r \in Req |-> NoFrame]
    /\ worker = [r \in Req |-> NoWorker]
    /\ raised = [r \in Req |-> None]
    /\ captured = [r \in Req |-> <<>>]
    /\ resp = [r \in Req |-> None]
    /\ trace = [r \in Req |-> <<>>]

CallWriteExportFile(r) ==
    /\ Next_request(r)
    /\ \E project_id \in ExportProjects, data \in ExportData :
        LET w == write_export_file(files, project_id, data)
        IN /\ Arrives(r, <<"write_export_file", project_id>>, "CALL", Some(data))
           /\ files' = w.files
           /\ Complete(r, w.res, [exported_to |-> w.res.val], <<>>)
           /\ UNCHANGED <<users, projects, bugs, lastThreadError, recursionLimit,
                          net, frame, worker>>

ExportNext ==
    \E r \in Req :
        \/ CallWriteExportFile(r)
        \/ TriggerPermissionError(r)

ExportSpec == ExportInit /\ [][ExportNext]_vars

\* The thread-error requests whose view has run or is running
ThreadErrorRequests ==
    {r \in Req : req[r].path = TriggerPath("thread-error") /\ Dispatched(r)}

\* C11: when a /trigger/thread-error request is the only one of its kind, the
\* exception its background thread raised is recorded by the thread exception
\* hook before the join returns, well inside the 5-second deadline; the
\* request re-raises that recorded exception and answers 500 with error equal
\* to the kind of the background exception (KeyError); it does not answer 200
\* 'notification sent', which is left for a background thread that raised
\* nothing.
C11_ThreadErrorSurfaced ==
    \A r \in Req :
        ThreadErrorRequests = {r} =>
            LET failure == FirstFailure(frame[r].queue, 1)
            IN /\ failure # None
               /\ failure[1].kind = "KeyError"
               /\ (pc[r] = "reraise" \/ Done(r)) =>
                     /\ worker[r].state = "done"
                     /\ ~frame[r].alive_at_join
                     /\ frame[r].elapsed = ProcessingDelay
                     /\ frame[r].elapsed < frame[r].join_timeout
                     /\ lastThreadError.error = Some(RaisedIn(failure[1], r, "worker"))
               /\ Done(r) =>
                     /\ raised[r] = Some(RaisedIn(failure[1], r, "worker"))
                     /\ captured[r] = <<RaisedIn(failure[1], r, "worker")>>
                     /\ Json(r)
                     /\ resp[r][1].status = 500
                     /\ resp[r][1].body.error = failure[1].kind

\* The only thread-error request has answered 500 KeyError after another
\* request was handled
C11_Witness ==
    \E r, q \in Req :
        /\ q # r
        /\ Done(q)
        /\ ThreadErrorRequests = {r}
        /\ Done(r)
        /\ resp[r][1].status = 500
        /\ resp[r][1].body.error = "KeyError"
        /\ raised[r][1].thread = "worker"

\* The recursion-error requests between lowering the limit and restoring it
RecursionInProgress == {r \in Req : pc[r] = "flatten"}

\* C12: whenever no /trigger/recursion-error request is in progress, the
\* process-wide recursion limit equals the value it had before the first such
\* request, after a single request and after every interleaving of concurrent
\* ones.
C12_RecursionLimitRestored ==
    RecursionInProgress = {} => recursionLimit = InitialRecursionLimit

\* flatten runs, or has run, for r on the tree of build_recursive_categories
OnRecursiveTree(r) == pc[r] # "idle" /\ frame[r].heap = recursive_tree.heap

\* flatten runs, or has run, for r on the tree of build_category_tree
OnCategoryTree(r) == pc[r] # "idle" /\ frame[r].heap = build_category_tree.heap

\* The calls in progress are flatten on Root, on Child, on Root, and so on
RootChildAlternate(r) ==
    /\ Len(frame[r].names) = Len(frame[r].stack)
    /\ \A k \in DOMAIN frame[r].stack :
          /\ frame[r].stack[k].node = (IF k % 2 = 1 THEN 1 ELSE 2)
          /\ frame[r].names[k] = (IF k % 2 = 1 THEN "Root" ELSE "Child")

RaisedRecursionError(r) ==
    /\ raised[r] # None
    /\ raised[r][1].kind = "RecursionError"
    /\ resp[r][1].status = 500
    /\ resp[r][1].body.error = "RecursionError"

CategoryNames ==
    <<"All Tasks", "Engineering", "Backend", "Frontend", "Design", "UI", "UX">>

\* C13: flatten on the tree whose child list points back to an ancestor never
\* returns a list: the calls in progress are flatten on Root, on Child, on
\* Root again and so on, every step is one more call, and the flatten ends
\* only when the call depth has reached the recursion limit, with
\* RecursionError; build_recursive_categories, as the recursion-error route
\* calls it, raises RecursionError too.  On the tree of build_category_tree
\* flatten returns, and the list holds every node name exactly once, in
\* pre-order.
C13_FlattenCyclicAndAcyclic ==
    /\ [](\A r \in Req :
            /\ OnRecursiveTree(r) =>
                  /\ RootChildAlternate(r)
                  /\ Len(frame[r].stack) <= InitialRecursionLimit
                  /\ Done(r) =>
                        /\ RaisedRecursionError(r)
                        /\ Len(frame[r].stack) >= LoweredRecursionLimit
            /\ (OnCategoryTree(r) /\ Done(r)) =>
                  /\ raised[r] = None
                  /\ resp[r][1].body.categories = CategoryNames
                  /\ Len(CategoryNames) = Len(build_category_tree.heap)
                  /\ \A n \in DOMAIN build_category_tree.heap :
                        Count(resp[r][1].body.categories,
                              build_category_tree.heap[n].name) = 1
            /\ (Done(r) /\ req[r].path = TriggerPath("recursion-error")) =>
                  RaisedRecursionError(r))
    /\ [][\A r \in Req :
            (OnRecursiveTree(r) /\ pc[r] = "walking" /\ frame'[r] # frame[r]) =>
                /\ Len(frame'[r].stack) = Len(frame[r].stack) + 1
                /\ pc'[r] = "walking"]_vars

\* flatten on the tree with the back-reference has ended with RecursionError
\* at the depth of the limit, and the recursion-error route has answered
C13_Witness ==
    \E r, q \in Req :
        /\ OnRecursiveTree(r)
        /\ Done(r)
        /\ RaisedRecursionError(r)
        /\ Len(frame[r].stack) = InitialRecursionLimit
        /\ Done(q)
        /\ req[q].path = TriggerPath("recursion-error")

-----------------------------------------------------------------------------
(* C14 *)

ExportPaths == {ExportPath(p) : p \in ExportProjects}

\* The export file request r is about
ExportedBy(r) ==
    IF req[r].path = TriggerPath("permission-error") THEN ExportPath("proj-1")
    ELSE ExportPath(req[r].path[2])

\* The requests that have called write_export_file
WriteExportCalls ==
    {r \in Req : /\ Done(r)
                 /\ req[r].path \in {TriggerPath("permission-error")} \cup
                        {<<"write_export_file", p>> : p \in ExportProjects}}

\* Request r calls write_export_file on path p in this step
CallsOn(r, p) ==
    /\ ~Done(r)
    /\ Done(r)'
    /\ r \in WriteExportCalls'
    /\ ExportedBy(r)' = p

\* What a step does to the export file at path p
ExportFileStep(p) ==
    LET before == files[p]
        after == files'[p]
    IN IF \E r \in Req : CallsOn(r, p)
       THEN /\ after # None
            /\ after[1].readonly
            /\ after[1].content = IF before = None THEN Placeholder
                                  ELSE before[1].content
            /\ (\E q \in WriteExportCalls : ExportedBy(q) = p) => after = before
       ELSE after = before

-----------------------------------------------------------------------------
(* C15 *)

\* The /trigger/connection-error requests whose view has run to its end
ConnectionRequests ==
    {r \in Req : /\ Done(r)
                 /\ Dispatched(r)
                 /\ req[r].path = TriggerPath("connection-error")}

\* C15: a /trigger/connection-error request closes the socket and is
\* answered with status 500 and the error field ConnectionError, whichever
\* way the connection attempt fails (name not resolved, refused, timed out)
C15_ConnectionErrorReported ==
    \A r \in ConnectionRequests :
        /\ frame[r].socket_closed
        /\ JsonError(r)
        /\ resp[r][1].body.error = "ConnectionError"

====
